---- MODULE Spec2Model ----
(***************************************************************************)
(* Model of monadicstack/filestore: the disk-backed file store DiskFS.     *)
(*                                                                         *)
(* The storage is a tree of entries named by paths relative to the         *)
(* process's working directory: a path is a sequence of segments, and the  *)
(* empty sequence is "." (the working directory itself).  Every DiskFS     *)
(* operation builds its path with path.Join(basePath, arg), which cleans   *)
(* the result lexically, and hands it to the os package.  The os calls     *)
(* are modelled as Go's os package behaves on Linux, without symbolic      *)
(* links, hard links or permission failures.  A path that climbs above the *)
(* process's working directory, or that starts at the root of the file     *)
(* system, names storage outside the tree, and the operations are not      *)
(* taken there.                                                            *)
(*                                                                         *)
(* A path text is the sequence of its segments between slashes: "a/b" is   *)
(* <<"a", "b">>, the empty text is <<"">> and "/a" is <<"", "a">>, so that *)
(* x + "/" + y is x \o y.  A file's content is a sequence of bytes.  Texts *)
(* that are taken apart (file names, extensions, patterns) are sequences   *)
(* of characters.                                                          *)
(***************************************************************************)
EXTENDS Integers, Sequences, FiniteSets, TLC

\* Number of calls on the file store in one behaviour.
MaxOps == 2

\* Length of the file names and extensions the text functions are applied to.
MaxLen == 3

\* Number of filters passed to one List call.
MaxFilters == 2

\* Number of calls in one behaviour of the file store with its handles: the
\* calls on the file store and the calls on the handles together.
MaxIO == 3

\* The path arguments the callers pass, as segment sequences: a file (f), an
\* empty directory (d), a directory that holds a file (e, e/f), a free name
\* (x), a free path whose parent is missing (d/x/y), a path below a file
\* (f/x), the root ("."), its parent (".."), the name of the root itself (r)
\* and a path that is not clean (d/../f).
PathArgs ==
    { <<"f">>, <<"d">>, <<"e">>, <<"e", "f">>, <<"x">>, <<"d", "x", "y">>,
      <<"f", "x">>, <<".">>, <<"..">>, <<"r">>, <<"d", "..", "f">> }

NIL == "nil"

DirEntry == [kind |-> "dir", content |-> <<>>]
FileEntry(c) == [kind |-> "file", content |-> c]

\* The storage the behaviours start from: the working directory holds the
\* directory r, which holds the files f and the directories d (empty) and e
\* (holding one file), after the fixture of SetupTest.
Fixture ==
    ( <<>> :> DirEntry ) @@ ( <<"r">> :> DirEntry ) @@
    ( <<"r", "f">> :> FileEntry(<<1, 2>>) ) @@ ( <<"r", "d">> :> DirEntry ) @@
    ( <<"r", "e">> :> DirEntry ) @@ ( <<"r", "e", "f">> :> FileEntry(<<3>>) )

----------------------------------------------------------------------------
\* package path

\* The empty text.
Empty == <<"">>

\* The text starts with a slash.
IsRooted(segs) == IF Len(segs) < 2 THEN FALSE ELSE segs[1] = ""

RECURSIVE cleanFrom(_, _, _)
cleanFrom(acc, segs, rooted) ==
    IF segs = <<>> THEN acc
    ELSE LET s == Head(segs)
             rest == Tail(segs)
         IN  IF s = "." \/ s = "" THEN cleanFrom(acc, rest, rooted)
             ELSE IF s = ".."
                  THEN IF acc # <<>> /\ acc[Len(acc)] # ".."
                       THEN cleanFrom(SubSeq(acc, 1, Len(acc) - 1), rest, rooted)
                       ELSE IF rooted THEN cleanFrom(acc, rest, rooted)
                       ELSE cleanFrom(Append(acc, ".."), rest, rooted)
                  ELSE cleanFrom(Append(acc, s), rest, rooted)

\* path.Clean: empty and "." segments dropped, each ".." removes the segment
\* before it; the leading ".." segments of a relative path stay, those of a
\* rooted path are dropped.  The cleaned "." is <<>>, the cleaned "/" is
\* <<"", "">>.
pathClean(segs) ==
    IF IsRooted(segs)
    THEN LET c == cleanFrom(<<>>, segs, TRUE)
         IN  IF c = <<>> THEN <<"", "">> ELSE <<"">> \o c
    ELSE cleanFrom(<<>>, segs, FALSE)

\* path.Join(a, b): empty elements are ignored, the others are joined with a
\* slash and the result is cleaned; two empty elements give the empty text.
pathJoin(a, b) ==
    IF a = Empty THEN (IF b = Empty THEN Empty ELSE pathClean(b))
    ELSE IF b = Empty THEN pathClean(a)
    ELSE pathClean((IF a = <<>> THEN <<".">> ELSE a) \o b)

\* path.Dir of a cleaned path: all but the last segment.
pathDir(p) == IF p = <<>> THEN <<>> ELSE SubSeq(p, 1, Len(p) - 1)

IsPrefix(p, q) == Len(p) <= Len(q) /\ SubSeq(q, 1, Len(p)) = p
IsProperPrefix(p, q) == Len(p) < Len(q) /\ IsPrefix(p, q)

\* The path stays at or below the process's working directory.
InTree(p) == IF p = <<>> THEN TRUE ELSE (p[1] # ".." /\ p[1] # "")

----------------------------------------------------------------------------
\* package os, on a tree t

Present(t, p) == p \in DOMAIN t
IsDir(t, p) == Present(t, p) /\ t[p].kind = "dir"
IsFile(t, p) == Present(t, p) /\ t[p].kind = "file"

\* Some proper prefix of p is a regular file.
FileAbove(t, p) == \E i \in 0..(Len(p) - 1) : IsFile(t, SubSeq(p, 1, i))

\* The names of the direct children of p, as os.ReadDir lists them.
Children(t, p) ==
    {q[Len(q)] : q \in {c \in DOMAIN t : Len(c) = Len(p) + 1 /\ IsPrefix(p, c)}}

\* os.Stat / os.Lstat of a cleaned path: the error.
osStat(t, p) ==
    IF Present(t, p) THEN NIL
    ELSE IF FileAbove(t, p) THEN "ENOTDIR" ELSE "ENOENT"

RECURSIVE walk(_, _, _)
walk(t, cur, segs) ==
    IF segs = <<>> THEN (IF Present(t, cur) THEN NIL ELSE "ENOENT")
    ELSE IF ~Present(t, cur) THEN "ENOENT"
    ELSE IF ~IsDir(t, cur) THEN "ENOTDIR"
    ELSE LET s == Head(segs)
         IN  IF s = "." THEN walk(t, cur, Tail(segs))
             ELSE IF s = ".."
                  THEN IF cur = <<>> THEN "OUTSIDE"
                       ELSE walk(t, pathDir(cur), Tail(segs))
                  ELSE walk(t, Append(cur, s), Tail(segs))

\* os.Stat of a path as given, resolved by the kernel segment by segment
\* from the process's working directory: the error.
osStatRaw(t, segs) == walk(t, <<>>, segs)

RECURSIVE osMkdirAll(_, _)
\* os.MkdirAll: nothing to do for a directory, ENOTDIR for a file, otherwise
\* the parent is made first and then the directory itself.
osMkdirAll(t, p) ==
    IF Present(t, p)
    THEN [tree |-> t, err |-> IF IsDir(t, p) THEN NIL ELSE "ENOTDIR"]
    ELSE LET r == osMkdirAll(t, pathDir(p))
         IN  IF r.err # NIL THEN r
             ELSE [tree |-> (p :> DirEntry) @@ r.tree, err |-> NIL]

\* The tree without the entry at p and everything below it.
Without(t, p) == [q \in {q \in DOMAIN t : ~IsPrefix(p, q)} |-> t[q]]

\* os.RemoveAll: "." is refused, a missing path is no error, a path below a
\* regular file fails with ENOTDIR (unlinkat on the parent), anything else is
\* removed with all it holds.
osRemoveAll(t, p) ==
    IF p = <<>> THEN [tree |-> t, err |-> "EINVAL"]
    ELSE IF Present(t, p) THEN [tree |-> Without(t, p), err |-> NIL]
    ELSE IF FileAbove(t, p) THEN [tree |-> t, err |-> "ENOTDIR"]
    ELSE [tree |-> t, err |-> NIL]

\* Relocated, but the source stays where it was (a copy).
Relocated_copy(t, from, to) ==
    LET moved == {q \in DOMAIN t : IsPrefix(from, q)}
        kept == {q \in DOMAIN t : ~IsPrefix(to, q)}
        dest(q) == to \o SubSeq(q, Len(from) + 1, Len(q))
    IN  [q \in kept \cup {dest(m) : m \in moved} |->
            IF IsPrefix(to, q) THEN t[from \o SubSeq(q, Len(to) + 1, Len(q))]
            ELSE t[q]]

\* Relocated, but only the entry itself arrives: what it held is lost.
Relocated_flat(t, from, to) ==
    LET kept == {q \in DOMAIN t : ~IsPrefix(from, q) /\ ~IsPrefix(to, q)}
    IN  [q \in kept \cup {to} |-> IF q = to THEN t[from] ELSE t[q]]

\* The subtree at from, relocated to to.
Relocated(t, from, to) ==
    LET moved == {q \in DOMAIN t : IsPrefix(from, q)}
        kept == {q \in DOMAIN t : ~IsPrefix(from, q) /\ ~IsPrefix(to, q)}
        dest(q) == to \o SubSeq(q, Len(from) + 1, Len(q))
    IN  [q \in kept \cup {dest(m) : m \in moved} |->
            IF q \in kept THEN t[q]
            ELSE t[from \o SubSeq(q, Len(to) + 1, Len(q))]]

\* osRename as rename(2) alone behaves: an empty directory is replaced by a
\* directory, a directory is refused to a file (EISDIR).
osRename_posix(t, from, to) ==
    IF ~Present(t, from) THEN [tree |-> t, err |-> osStat(t, from)]
    ELSE IF ~IsDir(t, pathDir(to)) THEN [tree |-> t, err |-> osStat(t, to)]
    ELSE IF from = <<>> THEN [tree |-> t, err |-> "EBUSY"]
    ELSE IF from = to THEN [tree |-> t, err |-> NIL]
    ELSE IF IsFile(t, from) /\ IsDir(t, to) THEN [tree |-> t, err |-> "EISDIR"]
    ELSE IF IsDir(t, from) /\ IsFile(t, to) THEN [tree |-> t, err |-> "ENOTDIR"]
    ELSE IF IsProperPrefix(from, to) THEN [tree |-> t, err |-> "EINVAL"]
    ELSE IF IsDir(t, to) /\ Children(t, to) # {} THEN [tree |-> t, err |-> "ENOTEMPTY"]
    ELSE [tree |-> Relocated(t, from, to), err |-> NIL]

\* os.Rename: Go first refuses every existing directory as the new name
\* (EEXIST); rename(2) then fails for a missing old name, does nothing for one and the same file, refuses a
\* directory over a file (ENOTDIR), a directory into itself (EINVAL) and
\* the working directory (EBUSY), and otherwise replaces the new name.
osRename(t, from, to) ==
    IF IsDir(t, to) THEN [tree |-> t, err |-> "EEXIST"]
    ELSE IF ~Present(t, from) THEN [tree |-> t, err |-> osStat(t, from)]
    ELSE IF ~IsDir(t, pathDir(to)) THEN [tree |-> t, err |-> osStat(t, to)]
    ELSE IF from = <<>> THEN [tree |-> t, err |-> "EBUSY"]
    ELSE IF from = to THEN [tree |-> t, err |-> NIL]
    ELSE IF IsDir(t, from) /\ IsFile(t, to) THEN [tree |-> t, err |-> "ENOTDIR"]
    ELSE IF IsProperPrefix(from, to) THEN [tree |-> t, err |-> "EINVAL"]
    ELSE [tree |-> Relocated(t, from, to), err |-> NIL]

\* os.Create, but an existing file keeps its content (no O_TRUNC).
osCreate_noTrunc(t, p) ==
    IF IsDir(t, p) THEN [tree |-> t, err |-> "EISDIR"]
    ELSE IF ~IsDir(t, pathDir(p)) THEN [tree |-> t, err |-> osStat(t, p)]
    ELSE IF IsFile(t, p) THEN [tree |-> t, err |-> NIL]
    ELSE [tree |-> (p :> FileEntry(<<>>)) @@ t, err |-> NIL]

\* os.Create: a directory cannot be opened for writing, anything else is
\* created or truncated to no content.
osCreate(t, p) ==
    IF IsDir(t, p) THEN [tree |-> t, err |-> "EISDIR"]
    ELSE IF ~IsDir(t, pathDir(p)) THEN [tree |-> t, err |-> osStat(t, p)]
    ELSE [tree |-> (p :> FileEntry(<<>>)) @@ t, err |-> NIL]

\* rename(2), but the old name stays beside the new one (a link, or a copy
\* that is never deleted).
sysRename_keep(t, from, to) ==
    IF ~Present(t, from) THEN [tree |-> t, err |-> osStat(t, from)]
    ELSE IF ~IsDir(t, pathDir(to)) THEN [tree |-> t, err |-> osStat(t, to)]
    ELSE IF from = to THEN [tree |-> t, err |-> NIL]
    ELSE IF IsProperPrefix(from, to) THEN [tree |-> t, err |-> "EINVAL"]
    ELSE [tree |-> Relocated_copy(t, from, to), err |-> NIL]

\* rename(2), the system call that os.Rename ends with: it fails for a
\* missing old name and a missing directory of the new name, refuses the
\* working directory (EBUSY), a file over a directory (EISDIR), a directory
\* over a file (ENOTDIR), a directory into itself (EINVAL) and a directory
\* over a directory that is not empty (ENOTEMPTY), does nothing for one and
\* the same entry and otherwise replaces the new name in one step.
sysRename(t, from, to) ==
    IF ~Present(t, from) THEN [tree |-> t, err |-> osStat(t, from)]
    ELSE IF ~IsDir(t, pathDir(to)) THEN [tree |-> t, err |-> osStat(t, to)]
    ELSE IF from = <<>> THEN [tree |-> t, err |-> "EBUSY"]
    ELSE IF from = to THEN [tree |-> t, err |-> NIL]
    ELSE IF IsFile(t, from) /\ IsDir(t, to) THEN [tree |-> t, err |-> "EISDIR"]
    ELSE IF IsDir(t, from) /\ IsFile(t, to) THEN [tree |-> t, err |-> "ENOTDIR"]
    ELSE IF IsProperPrefix(from, to) THEN [tree |-> t, err |-> "EINVAL"]
    ELSE IF IsDir(t, to) /\ Children(t, to) # {} THEN [tree |-> t, err |-> "ENOTEMPTY"]
    ELSE [tree |-> Relocated(t, from, to), err |-> NIL]

\* os.ReadDir: the error.
osReadDir(t, p) ==
    IF IsDir(t, p) THEN NIL
    ELSE IF IsFile(t, p) THEN "ENOTDIR" ELSE osStat(t, p)

----------------------------------------------------------------------------
\* package strings, on sequences of characters

\* The upper-case letters that occur, with their lower-case letters.
Upper == ("A" :> "a") @@ ("B" :> "b") @@ ("T" :> "t") @@ ("X" :> "x")

ToLower(s) == [i \in DOMAIN s |-> IF s[i] \in DOMAIN Upper THEN Upper[s[i]] ELSE s[i]]

HasPrefix(s, prefix) ==
    IF Len(prefix) > Len(s) THEN FALSE ELSE SubSeq(s, 1, Len(prefix)) = prefix

HasSuffix(s, suffix) ==
    IF Len(suffix) > Len(s) THEN FALSE
    ELSE SubSeq(s, Len(s) - Len(suffix) + 1, Len(s)) = suffix

TrimPrefix(s, prefix) ==
    IF HasPrefix(s, prefix) THEN SubSeq(s, Len(prefix) + 1, Len(s)) ELSE s

TrimSuffix(s, suffix) ==
    IF HasSuffix(s, suffix) THEN SubSeq(s, 1, Len(s) - Len(suffix)) ELSE s

RECURSIVE filepathMatch(_, _)
\* filepath.Match for patterns of literal characters, "?" (one character
\* that is no separator) and "*" (any run of characters that are no
\* separators).
filepathMatch(pattern, name) ==
    IF pattern = <<>> THEN name = <<>>
    ELSE IF Head(pattern) = "*"
    THEN \E k \in 0..Len(name) :
            /\ \A i \in 1..k : name[i] # "/"
            /\ filepathMatch(Tail(pattern), SubSeq(name, k + 1, Len(name)))
    ELSE IF name = <<>> THEN FALSE
    ELSE IF Head(pattern) = "?"
    THEN name[1] # "/" /\ filepathMatch(Tail(pattern), Tail(name))
    ELSE name[1] = Head(pattern) /\ filepathMatch(Tail(pattern), Tail(name))

\* path.Ext: the text from the last dot of the last slash-separated element
\* on, empty when that element has no dot.
pathExt(p) ==
    LET dots == {i \in 1..Len(p) : p[i] = "." /\ \A j \in i..Len(p) : p[j] # "/"}
    IN  IF dots = {} THEN <<>>
        ELSE SubSeq(p, CHOOSE i \in dots : \A j \in dots : j <= i, Len(p))

\* ChangeExtension, but the extension is appended to the name as it is.
ChangeExtension_append(fileName, ext) ==
    LET dotted == IF ext # <<>> /\ ~HasPrefix(ext, <<".">>) THEN <<".">> \o ext ELSE ext
    IN  fileName \o dotted

\* ChangeExtension, but the extension is appended as it was passed.
ChangeExtension_noDot(fileName, ext) ==
    LET currentExt == pathExt(fileName)
    IN  IF currentExt = ext THEN fileName
        ELSE TrimSuffix(fileName, currentExt) \o ext

\* ChangeExtension
ChangeExtension(fileName, ext) ==
    LET dotted == IF ext # <<>> /\ ~HasPrefix(ext, <<".">>) THEN <<".">> \o ext ELSE ext
        currentExt == pathExt(fileName)
    IN  IF currentExt = dotted THEN fileName
        ELSE TrimSuffix(fileName, currentExt) \o dotted

----------------------------------------------------------------------------
\* FileFilter: a filter is what its constructor captured, Accepts applies it
\* to the name of a file.

WithEverything == [kind |-> "everything", arg |-> <<>>]

\* WithExt, but the leading dot of the extension is not trimmed before the
\* dot is put in front.
WithExt_noTrim(extension) ==
    IF extension = <<>> THEN WithEverything
    ELSE IF extension = <<".">> THEN WithEverything
    ELSE [kind |-> "suffix", arg |-> <<".">> \o ToLower(extension)]

\* WithExt: the extension in lower case with exactly one dot put in front
\* of what follows its first dot, if it starts with one.
WithExt(extension) ==
    IF extension = <<>> THEN WithEverything
    ELSE IF extension = <<".">> THEN WithEverything
    ELSE [kind |-> "suffix", arg |-> <<".">> \o TrimPrefix(ToLower(extension), <<".">>)]

WithPattern(pattern) ==
    IF pattern = <<>> THEN WithEverything
    ELSE [kind |-> "pattern", arg |-> pattern]

\* The filter applied to a file of the given name.
Accepts(filter, name) ==
    IF filter.kind = "everything" THEN TRUE
    ELSE IF filter.kind = "suffix" THEN HasSuffix(ToLower(name), filter.arg)
    ELSE filepathMatch(filter.arg, name)

\* fileMatchesFilters, but one accepting filter is enough.
fileMatchesFilters_any(name, filters) ==
    \E i \in DOMAIN filters : Accepts(filters[i], name)

\* fileMatchesFilters: every filter accepts.
fileMatchesFilters(name, filters) ==
    \A i \in DOMAIN filters : Accepts(filters[i], name)

\* The characters of the entry names that filters are applied to; every
\* other name of the model is one character long.
Text(name) ==
    IF name = "a.txt" THEN <<"a", ".", "t", "x", "t">>
    ELSE IF name = "b.txt" THEN <<"b", ".", "t", "x", "t">>
    ELSE IF name = "b.log" THEN <<"b", ".", "l", "o", "g">>
    ELSE IF name = "c.txt" THEN <<"c", ".", "t", "x", "t">>
    ELSE IF name = "in" THEN <<"i", "n">>
    ELSE <<name>>

----------------------------------------------------------------------------
\* os.File: the open files of the process, in the order they were opened.
\* An open file is bound to the entry it was opened at, has an offset, and
\* is held by the caller it was returned to, or by nobody.

OpenFile(p, writable) ==
    [path |-> p, writable |-> writable, offset |-> 0, closed |-> FALSE, held |-> TRUE]

\* The files that are open.
OpenFiles(fl) == {h \in 1..Len(fl) : ~fl[h].closed}

\* The files a caller holds.
Held(fl) == {h \in 1..Len(fl) : fl[h].held}

\* os.Open: every existing entry is opened for reading, a directory too.
osOpen(t, fl, p) ==
    IF osStat(t, p) # NIL THEN [files |-> fl, h |-> 0, err |-> osStat(t, p)]
    ELSE [files |-> Append(fl, OpenFile(p, FALSE)), h |-> Len(fl) + 1, err |-> NIL]

\* os.File, but a closed file still answers.
osFileCheck_open(f) == NIL

\* os.File: every operation on a closed file fails (os.ErrClosed).
osFileCheck(f) == IF f.closed THEN "ErrClosed" ELSE NIL

Min(a, b) == IF a < b THEN a ELSE b
Max(a, b) == IF a < b THEN b ELSE a

\* At most k bytes of the content from the offset on.
Slice(content, off, k) ==
    IF off >= Len(content) THEN <<>>
    ELSE SubSeq(content, off + 1, Min(Len(content), off + k))

\* The content with the bytes b written at the offset; a gap is zeros.
Overwrite(content, off, b) ==
    [i \in 1..Max(Len(content), off + Len(b)) |->
        IF i > off /\ i <= off + Len(b) THEN b[i - off]
        ELSE IF i <= Len(content) THEN content[i] ELSE 0]

\* diskFile.Read of a buffer of k bytes.
fileRead(t, fl, h, k) ==
    LET f == fl[h]
    IN  IF osFileCheck(f) # NIL
        THEN [tree |-> t, files |-> fl, data |-> <<>>, err |-> osFileCheck(f)]
        ELSE LET data == Slice(t[f.path].content, f.offset, k)
             IN  IF data = <<>>
                 THEN [tree |-> t, files |-> fl, data |-> <<>>, err |-> "EOF"]
                 ELSE [tree |-> t,
                       files |-> [fl EXCEPT ![h].offset = @ + Len(data)],
                       data |-> data, err |-> NIL]

\* diskFile.ReadAt of a buffer of k bytes.
fileReadAt(t, fl, h, k, off) ==
    LET f == fl[h]
    IN  IF osFileCheck(f) # NIL
        THEN [tree |-> t, files |-> fl, data |-> <<>>, err |-> osFileCheck(f)]
        ELSE LET data == Slice(t[f.path].content, off, k)
             IN  [tree |-> t, files |-> fl, data |-> data,
                  err |-> IF Len(data) < k THEN "EOF" ELSE NIL]

\* diskFile.Write.
fileWrite(t, fl, h, b) ==
    LET f == fl[h]
    IN  IF osFileCheck(f) # NIL
        THEN [tree |-> t, files |-> fl, data |-> b, err |-> osFileCheck(f)]
        ELSE IF ~f.writable
        THEN [tree |-> t, files |-> fl, data |-> b, err |-> "EBADF"]
        ELSE [tree |-> [t EXCEPT ![f.path].content = Overwrite(@, f.offset, b)],
              files |-> [fl EXCEPT ![h].offset = @ + Len(b)],
              data |-> b, err |-> NIL]

\* diskFile.WriteAt.
fileWriteAt(t, fl, h, b, off) ==
    LET f == fl[h]
    IN  IF osFileCheck(f) # NIL
        THEN [tree |-> t, files |-> fl, data |-> b, err |-> osFileCheck(f)]
        ELSE IF ~f.writable
        THEN [tree |-> t, files |-> fl, data |-> b, err |-> "EBADF"]
        ELSE [tree |-> [t EXCEPT ![f.path].content = Overwrite(@, off, b)],
              files |-> fl, data |-> b, err |-> NIL]

\* diskFile.Seek: from the start, from the offset or from the end.
fileSeek(t, fl, h, off, whence) ==
    LET f == fl[h]
    IN  IF osFileCheck(f) # NIL
        THEN [tree |-> t, files |-> fl, data |-> <<>>, err |-> osFileCheck(f)]
        ELSE LET from == IF whence = "SeekStart" THEN 0
                         ELSE IF whence = "SeekCurrent" THEN f.offset
                         ELSE Len(t[f.path].content)
             IN  [tree |-> t, files |-> [fl EXCEPT ![h].offset = from + off],
                  data |-> <<>>, err |-> NIL]

\* diskFile.Close: the file is closed; closing it again is an error.
fileClose(t, fl, h) ==
    LET f == fl[h]
    IN  IF f.closed
        THEN [tree |-> t, files |-> fl, data |-> <<>>, err |-> "ErrClosed"]
        ELSE [tree |-> t, files |-> [fl EXCEPT ![h].closed = TRUE],
              data |-> <<>>, err |-> NIL]

----------------------------------------------------------------------------
\* DiskFS

VARIABLES
    tree,      \* the storage
    facades,   \* the DiskFS values the callers hold
    files,     \* the open files
    input,     \* the texts a behaviour applies the text functions to
    last,      \* the last call: receiver, arguments, results, the state before it
    prev,      \* the call before the last
    prev2,     \* the call before that
    n,         \* calls made
    moves      \* the Move calls that callers run step by step, side by side

vars == <<tree, facades, files, input, last, prev, prev2, n, moves>>

Disk(basePath) == [basePath |-> basePath]

NoInput == [name |-> <<>>, ext |-> <<>>]

NoCall ==
    [op |-> "none", fs |-> Disk(<<>>), a1 |-> <<>>, a2 |-> <<>>, err |-> NIL,
     found |-> FALSE, names |-> {}, dir |-> <<>>, pre |-> Fixture,
     h |-> 0, data |-> <<>>, filters |-> <<>>, files |-> <<>>]

Call(op, d, a1, a2, err, pre) ==
    [op |-> op, fs |-> d, a1 |-> a1, a2 |-> a2, err |-> err,
     found |-> FALSE, names |-> {}, dir |-> <<>>, pre |-> pre,
     h |-> 0, data |-> <<>>, filters |-> <<>>, files |-> files]

CanCall == n < MaxOps

Record(c) ==
    /\ n' = n + 1
    /\ prev2' = prev
    /\ prev' = last
    /\ last' = c

Init ==
    /\ tree = Fixture
    /\ facades = {Disk(<<"r">>)}
    /\ files = <<>>
    /\ input = NoInput
    /\ last = NoCall
    /\ prev = NoCall
    /\ prev2 = NoCall
    /\ n = 0
    /\ moves = <<>>

\* DiskFS.WorkingDirectory
WorkingDirectory(d) == pathClean(d.basePath)

DoWorkingDirectory(d) ==
    /\ CanCall
    /\ Record([Call("WorkingDirectory", d, <<>>, <<>>, NIL, tree)
                 EXCEPT !.dir = WorkingDirectory(d)])
    /\ UNCHANGED <<tree, facades, files, input, moves>>

\* ChangeDirectory, but a rooted argument replaces the root of the receiver.
ChangeDirectory_rooted(d, dir) ==
    IF IsRooted(dir) THEN Disk(pathClean(dir)) ELSE Disk(pathJoin(d.basePath, dir))

\* DiskFS.ChangeDirectory
ChangeDirectory(d, dir) == Disk(pathJoin(d.basePath, dir))

\* Derived, but the receiver itself is moved to the new root.
Derived_inPlace(held, d, dir) == (held \ {d}) \cup {ChangeDirectory(d, dir)}

\* The facades held after ChangeDirectory: the receiver is a copy (value
\* receiver) and stays as it was, the derived facade is a new value.
Derived(held, d, dir) == held \cup {ChangeDirectory(d, dir)}

DoChangeDirectory(d, dir) ==
    /\ CanCall
    /\ facades' = Derived(facades, d, dir)
    /\ Record([Call("ChangeDirectory", d, dir, <<>>, NIL, tree)
                 EXCEPT !.dir = ChangeDirectory(d, dir).basePath])
    /\ UNCHANGED <<tree, files, input, moves>>

\* DiskFS.Stat: the error.
Stat(t, d, filePath) == osStat(t, pathJoin(d.basePath, filePath))

DoStat(d, p) ==
    /\ CanCall
    /\ InTree(pathJoin(d.basePath, p))
    /\ Record(Call("Stat", d, p, <<>>, Stat(tree, d, p), tree))
    /\ UNCHANGED <<tree, facades, files, input, moves>>

\* DiskFS.Exists: os.Stat of the path as given, without the base path.
Exists(t, d, filePath) == osStatRaw(t, filePath) = NIL

DoExists(d, p) ==
    /\ CanCall
    /\ osStatRaw(tree, p) # "OUTSIDE"
    /\ InTree(pathJoin(d.basePath, p))
    /\ Record([Call("Exists", d, p, <<>>, NIL, tree)
                 EXCEPT !.found = Exists(tree, d, p)])
    /\ UNCHANGED <<tree, facades, files, input, moves>>

\* Read, but without the look at what was opened: a directory is returned
\* like a file.
Read_noDirCheck(t, fl, d, filePath) == osOpen(t, fl, pathJoin(d.basePath, filePath))

\* DiskFS.Read: the open files, the handle returned (0 for none) and the
\* error.  The entry is opened first and then found to be a directory: the
\* call returns the error and the file it opened stays open, held by nobody.
Read(t, fl, d, filePath) ==
    LET full == pathJoin(d.basePath, filePath)
        opened == osOpen(t, fl, full)
    IN  IF opened.err # NIL THEN opened
        ELSE IF IsDir(t, full)
        THEN [files |-> [opened.files EXCEPT ![opened.h].held = FALSE],
              h |-> 0, err |-> "directory"]
        ELSE opened

DoRead(d, p) ==
    /\ CanCall
    /\ InTree(pathJoin(d.basePath, p))
    /\ LET r == Read(tree, files, d, p)
       IN  /\ files' = r.files
           /\ Record([Call("Read", d, p, <<>>, r.err, tree) EXCEPT !.h = r.h])
    /\ UNCHANGED <<tree, facades, input, moves>>

\* DiskFS.Write: the tree, the open files, the handle returned (0 for none)
\* and the error.
Write(t, fl, d, filePath) ==
    LET fullPath == pathJoin(d.basePath, filePath)
        made == osMkdirAll(t, pathDir(fullPath))
        created == osCreate(made.tree, fullPath)
    IN  IF made.err # NIL
        THEN [tree |-> made.tree, files |-> fl, h |-> 0, err |-> made.err]
        ELSE IF created.err # NIL
        THEN [tree |-> created.tree, files |-> fl, h |-> 0, err |-> created.err]
        ELSE [tree |-> created.tree, files |-> Append(fl, OpenFile(fullPath, TRUE)),
              h |-> Len(fl) + 1, err |-> NIL]

DoWrite(d, p) ==
    /\ CanCall
    /\ InTree(pathJoin(d.basePath, p))
    /\ LET r == Write(tree, files, d, p)
       IN  /\ tree' = r.tree
           /\ files' = r.files
           /\ Record([Call("Write", d, p, <<>>, r.err, tree) EXCEPT !.h = r.h])
    /\ UNCHANGED <<facades, input, moves>>

\* DiskFS.List: the names and the error.
List(t, d, dirPath, filters) ==
    LET full == pathJoin(d.basePath, dirPath)
        err == osReadDir(t, full)
    IN  IF err = "ENOENT" THEN [names |-> {}, err |-> NIL]
        ELSE IF err # NIL THEN [names |-> {}, err |-> err]
        ELSE [names |-> {c \in Children(t, full) : fileMatchesFilters(Text(c), filters)},
              err |-> NIL]

DoList(d, p, filters) ==
    /\ CanCall
    /\ InTree(pathJoin(d.basePath, p))
    /\ LET r == List(tree, d, p, filters)
       IN  Record([Call("List", d, p, <<>>, r.err, tree)
                     EXCEPT !.names = r.names, !.filters = filters])
    /\ UNCHANGED <<tree, facades, files, input, moves>>

\* Remove, but of the receiver's base path whatever the argument.
Remove_base(t, d, fileOrDirPath) == osRemoveAll(t, pathJoin(d.basePath, <<>>))

\* Remove, but of the directory that holds the path.
Remove_parent(t, d, fileOrDirPath) ==
    osRemoveAll(t, pathDir(pathJoin(d.basePath, fileOrDirPath)))

\* DiskFS.Remove: the tree and the error.
Remove(t, d, fileOrDirPath) == osRemoveAll(t, pathJoin(d.basePath, fileOrDirPath))

DoRemove(d, p) ==
    /\ CanCall
    /\ InTree(pathJoin(d.basePath, p))
    /\ LET r == Remove(tree, d, p)
       IN  /\ tree' = r.tree
           /\ Record(Call("Remove", d, p, <<>>, r.err, tree))
    /\ UNCHANGED <<facades, files, input, moves>>

\* Move, but without creating the directory of the destination.
Move_noMkdirAll(t, d, fromPath, toPath) ==
    LET from == pathJoin(d.basePath, fromPath)
        to == pathJoin(d.basePath, toPath)
    IN  IF osStat(t, from) # NIL THEN [tree |-> t, err |-> osStat(t, from)]
        ELSE osRename(t, from, to)

\* DiskFS.Move: the tree and the error.
Move(t, d, fromPath, toPath) ==
    LET from == pathJoin(d.basePath, fromPath)
        to == pathJoin(d.basePath, toPath)
    IN  IF osStat(t, from) # NIL THEN [tree |-> t, err |-> osStat(t, from)]
        ELSE LET made == osMkdirAll(t, pathDir(to))
             IN  IF made.err # NIL THEN made
                 ELSE osRename(made.tree, from, to)

DoMove(d, p, q) ==
    /\ CanCall
    /\ InTree(pathJoin(d.basePath, p))
    /\ InTree(pathJoin(d.basePath, q))
    /\ LET r == Move(tree, d, p, q)
       IN  /\ tree' = r.tree
           /\ Record(Call("Move", d, p, q, r.err, tree))
    /\ UNCHANGED <<facades, files, input, moves>>

\* The calls on the handles a caller holds.
IOCall(op, h, r, pre) ==
    [Call(op, NoCall.fs, <<>>, <<>>, r.err, pre) EXCEPT !.h = h, !.data = r.data]

CanUse == n < MaxIO

DoFileRead(h, k) ==
    /\ CanUse
    /\ LET r == fileRead(tree, files, h, k)
       IN  /\ files' = r.files
           /\ Record(IOCall("FileRead", h, r, tree))
    /\ UNCHANGED <<tree, facades, input, moves>>

DoFileReadAt(h, k, off) ==
    /\ CanUse
    /\ LET r == fileReadAt(tree, files, h, k, off)
       IN  Record(IOCall("FileReadAt", h, r, tree))
    /\ UNCHANGED <<tree, facades, files, input, moves>>

DoFileWrite(h, b) ==
    /\ CanUse
    /\ LET r == fileWrite(tree, files, h, b)
       IN  /\ tree' = r.tree
           /\ files' = r.files
           /\ Record(IOCall("FileWrite", h, r, tree))
    /\ UNCHANGED <<facades, input, moves>>

DoFileWriteAt(h, b, off) ==
    /\ CanUse
    /\ LET r == fileWriteAt(tree, files, h, b, off)
       IN  /\ tree' = r.tree
           /\ Record(IOCall("FileWriteAt", h, r, tree))
    /\ UNCHANGED <<facades, files, input, moves>>

DoFileSeek(h, off, whence) ==
    /\ CanUse
    /\ LET r == fileSeek(tree, files, h, off, whence)
       IN  /\ files' = r.files
           /\ Record(IOCall("FileSeek", h, r, tree))
    /\ UNCHANGED <<tree, facades, input, moves>>

DoFileClose(h) ==
    /\ CanUse
    /\ LET r == fileClose(tree, files, h)
       IN  /\ files' = r.files
           /\ Record(IOCall("FileClose", h, r, tree))
    /\ UNCHANGED <<tree, facades, input, moves>>

Next ==
    \/ \E d \in facades : DoWorkingDirectory(d)
    \/ \E d \in facades, p \in PathArgs : DoChangeDirectory(d, p)
    \/ \E d \in facades, p \in PathArgs : DoStat(d, p)
    \/ \E d \in facades, p \in PathArgs : DoExists(d, p)
    \/ \E d \in facades, p \in PathArgs : DoRead(d, p)
    \/ \E d \in facades, p \in PathArgs : DoWrite(d, p)
    \/ \E d \in facades, p \in PathArgs : DoList(d, p, <<>>)
    \/ \E d \in facades, p \in PathArgs : DoRemove(d, p)
    \/ \E d \in facades, p, q \in PathArgs : DoMove(d, p, q)

Spec == Init /\ [][Next]_vars

----------------------------------------------------------------------------
\* The file store with its handles: files are opened with Read and Write and
\* used through the handles returned.  No entry is moved or removed here, so
\* that an open file stays the entry at its path.

\* The paths opened: a file (f), a directory (d), a file in a directory
\* (e/f), a free path whose parent is missing (d/x/y), a path below a file
\* (f/x).
IoPaths == { <<"f">>, <<"d">>, <<"e", "f">>, <<"d", "x", "y">>, <<"f", "x">> }

\* The bytes written, the buffer sizes read, the offsets and the origins.
Blocks == { <<7>>, <<8, 9>> }
Counts == {1, 2}
Offsets == {0, 1}
Origins == {"SeekStart", "SeekCurrent", "SeekEnd"}

NextIO ==
    \/ \E d \in facades, p \in IoPaths : DoRead(d, p)
    \/ \E d \in facades, p \in IoPaths : DoWrite(d, p)
    \/ \E h \in Held(files), k \in Counts : DoFileRead(h, k)
    \/ \E h \in Held(files), k \in Counts, off \in Offsets : DoFileReadAt(h, k, off)
    \/ \E h \in Held(files), b \in Blocks : DoFileWrite(h, b)
    \/ \E h \in Held(files), b \in Blocks, off \in Offsets : DoFileWriteAt(h, b, off)
    \/ \E h \in Held(files), off \in Offsets, whence \in Origins : DoFileSeek(h, off, whence)
    \/ \E h \in Held(files) : DoFileClose(h)

SpecIO == Init /\ [][NextIO]_vars

----------------------------------------------------------------------------
\* Facades derived from one another, from roots and with arguments that the
\* other behaviours do not use: empty texts, rooted paths, paths that climb.

\* The roots: r, the empty text, "..", "/r" and "r/s".
BaseArgs == { <<"r">>, Empty, <<"..">>, <<"", "r">>, <<"r", "s">> }

\* The arguments: the empty text, ".", "..", "a", "a/b", "../..", "a/../..",
\* "/a" and "a/".
CdArgs ==
    { Empty, <<".">>, <<"..">>, <<"a">>, <<"a", "b">>, <<"..", "..">>,
      <<"a", "..", "..">>, <<"", "a">>, <<"a", "">> }

InitCd ==
    /\ tree = Fixture
    /\ facades \in {{Disk(b)} : b \in BaseArgs}
    /\ files = <<>>
    /\ input = NoInput
    /\ last = NoCall
    /\ prev = NoCall
    /\ prev2 = NoCall
    /\ n = 0
    /\ moves = <<>>

NextCd ==
    \/ \E d \in facades : DoWorkingDirectory(d)
    \/ \E d \in facades, dir \in CdArgs : DoChangeDirectory(d, dir)

SpecCd == InitCd /\ [][NextCd]_vars

----------------------------------------------------------------------------
\* The text functions, applied to a file name and an extension that the
\* behaviour starts with.

NameChars == {"a", "B", ".", "/"}
ExtChars == {"a", "B", "."}

Texts(chars) == UNION {[1..k -> chars] : k \in 0..MaxLen}

InitText ==
    /\ tree = Fixture
    /\ facades = {Disk(<<"r">>)}
    /\ files = <<>>
    /\ input \in [name : Texts(NameChars), ext : Texts(ExtChars)]
    /\ last = NoCall
    /\ prev = NoCall
    /\ prev2 = NoCall
    /\ n = 0
    /\ moves = <<>>

\* WithExt(ext) applied to a file of the name.
DoWithExt ==
    /\ CanCall
    /\ Record([Call("WithExt", NoCall.fs, input.name, input.ext, NIL, tree)
                 EXCEPT !.found = Accepts(WithExt(input.ext), input.name)])
    /\ UNCHANGED <<tree, facades, files, input, moves>>

\* ChangeExtension(name, ext)
DoChangeExtension ==
    /\ CanCall
    /\ Record([Call("ChangeExtension", NoCall.fs, input.name, input.ext, NIL, tree)
                 EXCEPT !.dir = ChangeExtension(input.name, input.ext)])
    /\ UNCHANGED <<tree, facades, files, input, moves>>

\* ChangeExtension(result, ext), on the result of the ChangeExtension call
\* before.
DoChangeExtensionAgain ==
    /\ CanCall
    /\ last.op = "ChangeExtension"
    /\ Record([Call("ChangeExtension", NoCall.fs, last.dir, input.ext, NIL, tree)
                 EXCEPT !.dir = ChangeExtension(last.dir, input.ext)])
    /\ UNCHANGED <<tree, facades, files, input, moves>>

NextText ==
    \/ DoWithExt
    \/ DoChangeExtension
    \/ DoChangeExtensionAgain

SpecText == InitText /\ [][NextText]_vars

----------------------------------------------------------------------------
\* List with filters, on a directory r that holds the files a.txt, b.txt and
\* b.log and the directory in, which holds the file c.txt; after the
\* directories of TestList_withFilters.

ListFixture ==
    ( <<>> :> DirEntry ) @@ ( <<"r">> :> DirEntry ) @@
    ( <<"r", "a.txt">> :> FileEntry(<<1>>) ) @@
    ( <<"r", "b.txt">> :> FileEntry(<<2>>) ) @@
    ( <<"r", "b.log">> :> FileEntry(<<3>>) ) @@
    ( <<"r", "in">> :> DirEntry ) @@
    ( <<"r", "in", "c.txt">> :> FileEntry(<<4>>) )

\* The directories listed: r itself, in, a file, a free name and a path
\* below a file.
ListPaths == { <<".">>, <<"in">>, <<"a.txt">>, <<"x">>, <<"a.txt", "x">> }

\* The filters passed: by extension (with and without dot, in upper case),
\* by pattern, and the one that accepts everything.
FilterArgs ==
    { WithExt(<<"t", "x", "t">>), WithExt(<<".", "l", "o", "g">>),
      WithExt(<<"T", "X", "T">>), WithPattern(<<"b", "*">>),
      WithPattern(<<"?", ".", "t", "*">>), WithPattern(<<>>) }

FilterLists == UNION {[1..k -> FilterArgs] : k \in 0..MaxFilters}

InitList ==
    /\ tree = ListFixture
    /\ facades = {Disk(<<"r">>)}
    /\ files = <<>>
    /\ input = NoInput
    /\ last = NoCall
    /\ prev = NoCall
    /\ prev2 = NoCall
    /\ n = MaxOps - 1
    /\ moves = <<>>

\* One call is left in a behaviour: List changes nothing, a second call
\* would start from the state the first started from.
NextList ==
    \E d \in facades, p \in ListPaths, fl \in FilterLists : DoList(d, p, fl)

SpecList == InitList /\ [][NextList]_vars

----------------------------------------------------------------------------
\* Two callers run Move(a, b) and Move(a, c) on one facade side by side.  A
\* Move is the steps of its code: os.Stat of the source, os.MkdirAll of the
\* directory of the destination, and os.Rename, which is the look at the new
\* name (Lstat) and rename(2).  Each step is one or more system calls on the
\* shared storage and the steps of the two callers interleave freely.

\* The sources: a file, a directory that holds a file, an empty directory.
RaceSources == { <<"f">>, <<"e">>, <<"d">> }

\* The destinations, all absent: free names (x, y), a path below one of them
\* (x/y), paths inside the sources (d/x, e/x, f/x, f/y) and a path whose
\* parent is missing (d/x/y).
RaceDests ==
    { <<"x">>, <<"y">>, <<"x", "y">>, <<"d", "x">>, <<"e", "x">>, <<"f", "x">>,
      <<"f", "y">>, <<"d", "x", "y">> }

MoveCall(d, fromPath, toPath) ==
    [pc |-> "Stat", fs |-> d, fromPath |-> fromPath, toPath |-> toPath,
     err |-> NIL, at |-> "none"]

InitRace ==
    /\ tree = Fixture
    /\ facades = {Disk(<<"r">>)}
    /\ files = <<>>
    /\ input = NoInput
    /\ last = NoCall
    /\ prev = NoCall
    /\ prev2 = NoCall
    /\ n = 0
    /\ moves \in { <<MoveCall(Disk(<<"r">>), a, b), MoveCall(Disk(<<"r">>), a, c)>> :
                      a \in RaceSources, b \in RaceDests, c \in RaceDests }
    /\ moves[1].toPath # moves[2].toPath

\* The paths of a Move in flight, joined to the base path.
MoveFrom(m) == pathJoin(m.fs.basePath, m.fromPath)
MoveTo(m) == pathJoin(m.fs.basePath, m.toPath)

\* The call goes on to its next step, or returns the error of this step.
Stepped(m, step, err, next) ==
    IF err # NIL THEN [m EXCEPT !.pc = "Returned", !.err = err, !.at = step]
    ELSE [m EXCEPT !.pc = next]

\* Move: os.Stat(fromPath)
DoMoveStat(c) ==
    /\ moves[c].pc = "Stat"
    /\ moves' = [moves EXCEPT ![c] =
                    Stepped(@, "Stat", osStat(tree, MoveFrom(@)), "MkdirAll")]
    /\ UNCHANGED <<tree, facades, files, input, last, prev, prev2, n>>

\* Move: os.MkdirAll(path.Dir(toPath))
DoMoveMkdirAll(c) ==
    /\ moves[c].pc = "MkdirAll"
    /\ LET made == osMkdirAll(tree, pathDir(MoveTo(moves[c])))
       IN  /\ tree' = made.tree
           /\ moves' = [moves EXCEPT ![c] = Stepped(@, "MkdirAll", made.err, "Lstat")]
    /\ UNCHANGED <<facades, files, input, last, prev, prev2, n>>

\* Move: os.Rename, its look at the new name: an existing directory is
\* refused.
DoMoveLstat(c) ==
    /\ moves[c].pc = "Lstat"
    /\ moves' = [moves EXCEPT ![c] =
                    Stepped(@, "Rename",
                            IF IsDir(tree, MoveTo(@)) THEN "EEXIST" ELSE NIL, "Rename")]
    /\ UNCHANGED <<tree, facades, files, input, last, prev, prev2, n>>

\* Move: os.Rename, its rename(2); the call returns.
DoMoveRename(c) ==
    /\ moves[c].pc = "Rename"
    /\ LET r == sysRename(tree, MoveFrom(moves[c]), MoveTo(moves[c]))
       IN  /\ tree' = r.tree
           /\ moves' = [moves EXCEPT ![c] = Stepped(@, "Rename", r.err, "Returned")]
    /\ UNCHANGED <<facades, files, input, last, prev, prev2, n>>

NextRace ==
    \/ \E c \in DOMAIN moves : DoMoveStat(c)
    \/ \E c \in DOMAIN moves : DoMoveMkdirAll(c)
    \/ \E c \in DOMAIN moves : DoMoveLstat(c)
    \/ \E c \in DOMAIN moves : DoMoveRename(c)

SpecRace == InitRace /\ [][NextRace]_vars

----------------------------------------------------------------------------
\* The last two calls, as the properties below speak of them.

Root(c) == WorkingDirectory(c.fs)
Target(c) == pathJoin(c.fs.basePath, c.a1)
Dest(c) == pathJoin(c.fs.basePath, c.a2)

Failed(c) == c.err # NIL
Succeeded(c) == c.err = NIL

\* The entries of t at and below p, named relative to p.
Subtree(t, p) ==
    [s \in {SubSeq(q, Len(p) + 1, Len(q)) : q \in {x \in DOMAIN t : IsPrefix(p, x)}}
        |-> t[p \o s]]

\* The entries of t that are neither at or below p nor at or below q.
Outside(t, p, q) ==
    [x \in {y \in DOMAIN t : ~IsPrefix(p, y) /\ ~IsPrefix(q, y)} |-> t[x]]

AncestorsAreDirs(t, p) == \A i \in 0..(Len(p) - 1) : IsDir(t, SubSeq(p, 1, i))

----------------------------------------------------------------------------
\* C1: whenever Move returns an error, the tree after the call is the tree
\* before the call (nothing moved, no directory created or removed).
C1_FailedMoveChangesNothing ==
    (last.op = "Move" /\ Failed(last)) => tree = last.pre

\* C2: Move returns an error when nothing exists at from, when from is a
\* file and to an existing directory, when from is a directory and to an
\* existing file, and when from is a directory and to an existing directory,
\* empty or not.
C2_MoveConflictsFail ==
    LET from == Target(last)
        to == Dest(last)
        t == last.pre
    IN  (/\ last.op = "Move"
         /\ \/ ~Present(t, from)
            \/ IsFile(t, from) /\ IsDir(t, to)
            \/ IsDir(t, from) /\ IsFile(t, to)
            \/ IsDir(t, from) /\ IsDir(t, to))
        => Failed(last)

\* A directory was moved onto another, empty directory and the call failed.
C2_Witness ==
    /\ last.op = "Move"
    /\ IsDir(last.pre, Target(last))
    /\ IsDir(last.pre, Dest(last))
    /\ Target(last) # Dest(last)
    /\ Children(last.pre, Dest(last)) = {}
    /\ Failed(last)

\* What C3 promises of a Move of the file at from over the file at to.
FileReplaced(c, after) ==
    LET from == Target(c)
        to == Dest(c)
        t == c.pre
    IN  /\ Succeeded(c)
        /\ IsFile(after, to)
        /\ after[to].content = t[from].content
        /\ ~Present(after, from)
        /\ Outside(after, from, to) = Outside(t, from, to)

\* C3 as stated: every Move of an existing file onto an existing file
\* succeeds, to then holds from's content, nothing is at from and every
\* other entry is unchanged.
C3_FileOverFile_AsStated ==
    (/\ last.op = "Move"
     /\ IsFile(last.pre, Target(last))
     /\ IsFile(last.pre, Dest(last)))
    => FileReplaced(last, tree)

\* C3, amended: the same for every Move of an existing file onto an existing
\* file at a different resolved path.
C3_FileOverOtherFile ==
    (/\ last.op = "Move"
     /\ IsFile(last.pre, Target(last))
     /\ IsFile(last.pre, Dest(last))
     /\ Target(last) # Dest(last))
    => FileReplaced(last, tree)

\* A file was moved over another file of different content.
C3_Witness ==
    /\ last.op = "Move"
    /\ IsFile(last.pre, Target(last))
    /\ IsFile(last.pre, Dest(last))
    /\ Target(last) # Dest(last)
    /\ last.pre[Target(last)].content # last.pre[Dest(last)].content
    /\ Succeeded(last)

\* What C4 promises of a Move to a path where nothing exists.
RelocatedTo(c, after) ==
    LET from == Target(c)
        to == Dest(c)
        t == c.pre
    IN  /\ Succeeded(c)
        /\ Subtree(after, to) = Subtree(t, from)
        /\ \A q \in DOMAIN after : ~IsPrefix(from, q)
        /\ AncestorsAreDirs(after, to)

\* C4 as stated: every Move of an existing entry to a path where no entry
\* exists succeeds, the entry with its subtree is then at to, nothing is at
\* from and every ancestor of to is a directory.
C4_MoveToFreePath_AsStated ==
    (/\ last.op = "Move"
     /\ Present(last.pre, Target(last))
     /\ ~Present(last.pre, Dest(last)))
    => RelocatedTo(last, tree)

\* C4, amended: the same when, besides, no ancestor of to is a regular file
\* and to does not lie inside from.
C4_MoveToFreePath ==
    (/\ last.op = "Move"
     /\ Present(last.pre, Target(last))
     /\ ~Present(last.pre, Dest(last))
     /\ ~FileAbove(last.pre, Dest(last))
     /\ ~IsProperPrefix(Target(last), Dest(last)))
    => RelocatedTo(last, tree)

\* A directory that holds a file was moved to a path whose parent did not
\* exist.
C4_Witness ==
    /\ last.op = "Move"
    /\ IsDir(last.pre, Target(last))
    /\ Children(last.pre, Target(last)) # {}
    /\ ~Present(last.pre, Dest(last))
    /\ ~Present(last.pre, pathDir(Dest(last)))
    /\ Succeeded(last)

\* The last two calls were Move(a, b) and then Move(b, a), both successful.
RoundTrip ==
    /\ prev.op = "Move"
    /\ last.op = "Move"
    /\ Succeeded(prev)
    /\ Succeeded(last)
    /\ Target(last) = Dest(prev)
    /\ Dest(last) = Target(prev)

\* C5 as stated: after Move(a, b) and Move(b, a), both successful, the tree
\* is the tree before the first move.
C5_RoundTrip_AsStated == RoundTrip => tree = prev.pre

\* C5, amended: the same when before the first move no entry exists at b and
\* the parent directory of b exists.
C5_RoundTrip ==
    (/\ RoundTrip
     /\ ~Present(prev.pre, Dest(prev))
     /\ IsDir(prev.pre, pathDir(Dest(prev))))
    => tree = prev.pre

\* A directory that holds a file went to a free name and back.
C5_Witness ==
    /\ RoundTrip
    /\ ~Present(prev.pre, Dest(prev))
    /\ IsDir(prev.pre, pathDir(Dest(prev)))
    /\ IsDir(prev.pre, Target(prev))
    /\ Children(prev.pre, Target(prev)) # {}
    /\ last.pre # prev.pre

RootKeepers ==
    {"Stat", "Exists", "Read", "List", "ChangeDirectory", "WorkingDirectory", "Remove"}

RootKept(c, after) == Present(after, Root(c)) <=> Present(c.pre, Root(c))

\* C6 as stated: Stat, Exists, Read, List, ChangeDirectory, WorkingDirectory
\* and Remove, with any path argument, leave the root of their facade
\* existing exactly when it existed before.
C6_RootKept_AsStated ==
    (last.op \in RootKeepers /\ InTree(Root(last))) => RootKept(last, tree)

\* C6, amended: the same for Stat, Exists, Read, List, ChangeDirectory and
\* WorkingDirectory with any path argument, and for Remove of a path that
\* resolves neither to the root nor to an ancestor of the root.
C6_RootKept ==
    (/\ last.op \in RootKeepers
     /\ InTree(Root(last))
     /\ last.op = "Remove" => ~IsPrefix(Target(last), Root(last)))
    => RootKept(last, tree)

\* Remove deleted an entry below an existing root.
C6_Witness ==
    /\ last.op = "Remove"
    /\ IsProperPrefix(Root(last), Target(last))
    /\ Present(last.pre, Target(last))
    /\ Succeeded(last)
    /\ Present(tree, Root(last))

\* C7: Exists(p) is true exactly when Stat(p) succeeds, for every facade
\* and every path.
C7_ExistsAgreesWithStat ==
    last.op = "Exists" => (last.found <=> Stat(last.pre, last.fs, last.a1) = NIL)

\* C8: Remove of a path where no entry exists returns no error and leaves
\* the tree unchanged.
C8_RemoveMissingIsNoOp ==
    (last.op = "Remove" /\ ~Present(last.pre, Target(last)))
    => (Succeeded(last) /\ tree = last.pre)

\* C9: after a successful Remove of an existing entry no entry exists at or
\* below its path, and every entry that is not at or below it is unchanged.
C9_RemoveDeletesSubtreeOnly ==
    (/\ last.op = "Remove"
     /\ Present(last.pre, Target(last))
     /\ Succeeded(last))
    => /\ \A q \in DOMAIN tree : ~IsPrefix(Target(last), q)
       /\ Outside(tree, Target(last), Target(last))
            = Outside(last.pre, Target(last), Target(last))

\* A directory that holds entries was removed while an entry beside it stays.
C9_Witness ==
    /\ last.op = "Remove"
    /\ IsDir(last.pre, Target(last))
    /\ Children(last.pre, Target(last)) # {}
    /\ Succeeded(last)
    /\ \E q \in DOMAIN tree : ~IsPrefix(q, Target(last))

\* C10: Remove(p) twice in a row returns no error either time, and the tree
\* after the second call is the tree after the first.
C10_RemoveIdempotent ==
    (/\ prev.op = "Remove"
     /\ last.op = "Remove"
     /\ last.fs = prev.fs
     /\ last.a1 = prev.a1)
    => (Succeeded(prev) /\ Succeeded(last) /\ tree = last.pre)


----------------------------------------------------------------------------
\* The last three calls were Write(p), a write to the handle it returned and
\* the release of that handle.
WrittenAndReleased ==
    /\ prev2.op = "Write"
    /\ Succeeded(prev2)
    /\ prev.op = "FileWrite"
    /\ prev.h = prev2.h
    /\ last.op = "FileClose"
    /\ last.h = prev2.h

\* C11: after Write(p), a write of the bytes B to the handle it returned and
\* the release of the handle, every ancestor of the resolved path is a
\* directory and the file there holds exactly B, whatever it held before.
C11_WriteTruncatesAndCreatesAncestors ==
    WrittenAndReleased =>
        /\ Succeeded(prev)
        /\ Succeeded(last)
        /\ AncestorsAreDirs(tree, Target(prev2))
        /\ IsFile(tree, Target(prev2))
        /\ tree[Target(prev2)].content = prev.data

\* A file was overwritten with fewer bytes than it held.
C11_Witness ==
    /\ WrittenAndReleased
    /\ IsFile(prev2.pre, Target(prev2))
    /\ Len(prev2.pre[Target(prev2)].content) > Len(prev.data)

\* A file was written below directories that did not exist.
C11_WitnessAncestors ==
    /\ WrittenAndReleased
    /\ ~Present(prev2.pre, pathDir(Target(prev2)))
    /\ Len(prev.data) > 0

----------------------------------------------------------------------------
\* C12: List(path, F1 .. Fn) on a directory returns exactly the direct
\* children that every one of the filters accepts: the children that each
\* of the lists List(path, Fi) holds, and all direct children when there is
\* no filter.
C12_ListIntersectsFilters ==
    (last.op = "List" /\ IsDir(last.pre, Target(last)))
    => /\ Succeeded(last)
       /\ last.names =
            {c \in Children(last.pre, Target(last)) :
                \A i \in DOMAIN last.filters :
                    c \in List(last.pre, last.fs, last.a1, <<last.filters[i]>>).names}
       /\ last.filters = <<>> => last.names = Children(last.pre, Target(last))

\* Two filters were passed, each accepts a child the other rejects, and the
\* list holds some children but not all.
C12_Witness ==
    /\ last.op = "List"
    /\ IsDir(last.pre, Target(last))
    /\ Len(last.filters) = 2
    /\ last.names # {}
    /\ \E c \in Children(last.pre, Target(last)) :
          /\ Accepts(last.filters[1], Text(c))
          /\ ~Accepts(last.filters[2], Text(c))
    /\ \E c \in Children(last.pre, Target(last)) :
          /\ Accepts(last.filters[2], Text(c))
          /\ ~Accepts(last.filters[1], Text(c))

----------------------------------------------------------------------------
\* C13: List of a resolved path where no entry exists returns no name and
\* no error; List of a resolved path that exists and is no directory returns
\* an error and no name.
C13_ListMissingOrNotDir ==
    last.op = "List" =>
        /\ ~Present(last.pre, Target(last)) => (Succeeded(last) /\ last.names = {})
        /\ IsFile(last.pre, Target(last)) => (Failed(last) /\ last.names = {})

----------------------------------------------------------------------------
\* C14: Read(p) returns no error and a handle, open on the file at the
\* resolved path, exactly when that path is an existing regular file; it
\* returns an error and no handle when nothing exists there and when it is a
\* directory; and it never changes the tree.
C14_ReadOpensRegularFilesOnly ==
    last.op = "Read" =>
        /\ Succeeded(last) <=> IsFile(last.pre, Target(last))
        /\ Succeeded(last) =>
              /\ last.h \in Held(files) \ Held(last.files)
              /\ last.h \in OpenFiles(files)
              /\ files[last.h].path = Target(last)
              /\ fileReadAt(tree, files, last.h, Len(tree[Target(last)].content), 0).data
                    = last.pre[Target(last)].content
        /\ Failed(last) => last.h = 0 /\ Held(files) = Held(last.files)
        /\ tree = last.pre

\* Read was called on a directory and failed.
C14_Witness ==
    /\ last.op = "Read"
    /\ IsDir(last.pre, Target(last))
    /\ Failed(last)
    /\ last.h = 0

\* Read was called on a regular file and returned a handle.
C14_WitnessFile ==
    /\ last.op = "Read"
    /\ IsFile(last.pre, Target(last))
    /\ last.h \in Held(files)

----------------------------------------------------------------------------
IOOps == {"FileRead", "FileReadAt", "FileWrite", "FileWriteAt", "FileSeek"}

\* C15: a handle that has been released stays released, and every Read,
\* ReadAt, Write, WriteAt and Seek on it from then on fails.
C15_ReleasedHandleFails ==
    [][\A h \in Held(files) :
          files[h].closed =>
              /\ files'[h].closed
              /\ (last'.op \in IOOps /\ last'.h = h) => Failed(last')]_vars

\* A handle was released and then read, written or moved.
C15_Witness ==
    /\ prev.op = "FileClose"
    /\ Succeeded(prev)
    /\ last.op \in IOOps
    /\ last.h = prev.h
    /\ Failed(last)

----------------------------------------------------------------------------
\* C20: a Read call that returns an error leaves as many files open as were
\* open before it.
C20_FailedReadLeavesNothingOpen ==
    (last.op = "Read" /\ Failed(last)) => OpenFiles(files) = OpenFiles(last.files)

----------------------------------------------------------------------------
\* The last two calls were fs.ChangeDirectory(x) and ChangeDirectory(y) on
\* the facade it returned.
Composed ==
    /\ prev.op = "ChangeDirectory"
    /\ last.op = "ChangeDirectory"
    /\ last.fs = Disk(prev.dir)

\* The working directory of fs.ChangeDirectory(x).ChangeDirectory(y) is that
\* of fs.ChangeDirectory(x + "/" + y).
ComposedIsJoined ==
    WorkingDirectory(Disk(last.dir))
        = WorkingDirectory(ChangeDirectory(prev.fs, prev.a1 \o last.a1))

\* C16 as stated: for every facade fs and all paths x and y,
\* fs.ChangeDirectory(x).ChangeDirectory(y) and fs.ChangeDirectory(x/y) have
\* the same working directory.
C16_ChangeDirectoryComposes_AsStated == Composed => ComposedIsJoined

\* C16, amended: the same unless the root of fs and x are both the empty
\* text.
C16_ChangeDirectoryComposes ==
    (Composed /\ ~(prev.fs.basePath = Empty /\ prev.a1 = Empty)) => ComposedIsJoined

\* Two steps that climb above the root of the facade they started from.
C16_Witness ==
    /\ Composed
    /\ prev.fs.basePath = <<"r">>
    /\ prev.a1 = <<"..">>
    /\ last.a1 = <<"..", "..">>
    /\ WorkingDirectory(Disk(last.dir)) = <<"..", "..">>

----------------------------------------------------------------------------
\* C17: ChangeDirectory never fails and leaves every facade held, its
\* receiver among them, as it was; the root of the facade it returns is the
\* same for the same receiver root and the same argument, whatever was
\* called in between, and the tree is not touched.
C17_ChangeDirectoryKeepsReceiver ==
    [][last'.op = "ChangeDirectory" =>
          /\ Succeeded(last')
          /\ \A d \in facades : d \in facades'
          /\ last'.fs \in facades
          /\ Disk(last'.dir) \in facades'
          /\ \A c \in {last, prev} :
                (c.op = "ChangeDirectory" /\ c.fs = last'.fs /\ c.a1 = last'.a1)
                    => c.dir = last'.dir
          /\ tree' = tree]_vars

\* ChangeDirectory was called twice on one facade, with two arguments, the
\* first of them a directory that does not exist; all three facades are held.
C17_Witness ==
    /\ prev.op = "ChangeDirectory"
    /\ last.op = "ChangeDirectory"
    /\ prev.fs = last.fs
    /\ prev.a1 = <<"a">>
    /\ prev.dir # last.dir
    /\ prev.dir # last.fs.basePath
    /\ last.dir # last.fs.basePath
    /\ {last.fs, Disk(prev.dir), Disk(last.dir)} \subseteq facades

----------------------------------------------------------------------------
\* C18: for every extension e that does not start with a dot and every file
\* name, WithExt(e) and WithExt("." + e) accept or reject the name alike.
C18_WithExtDotOptional ==
    (last.op = "WithExt" /\ ~HasPrefix(last.a2, <<".">>))
    => (last.found <=> Accepts(WithExt(<<".">> \o last.a2), last.a1))

\* An extension without dot, with an upper-case letter, accepted a name.
C18_Witness ==
    /\ last.op = "WithExt"
    /\ last.a2 # <<>>
    /\ ~HasPrefix(last.a2, <<".">>)
    /\ last.a2 # ToLower(last.a2)
    /\ last.found
    /\ Accepts(WithExt(<<".">> \o last.a2), last.a1)

----------------------------------------------------------------------------
\* The name without its trailing extension.
Stem(name) == SubSeq(name, 1, Len(name) - Len(pathExt(name)))

RECURSIVE WithoutLeadingDots(_)
WithoutLeadingDots(ext) ==
    IF ext = <<>> THEN <<>>
    ELSE IF Head(ext) = "." THEN WithoutLeadingDots(Tail(ext)) ELSE ext

\* The extension with exactly one leading dot, nothing for the empty one.
OneDot(ext) == IF ext = <<>> THEN <<>> ELSE <<".">> \o WithoutLeadingDots(ext)

\* The extension with a dot put in front unless it is empty or starts with a
\* dot already.
Dotted(ext) ==
    IF ext = <<>> THEN <<>> ELSE IF Head(ext) = "." THEN ext ELSE <<".">> \o ext

\* C19 as stated: ChangeExtension(name, ext) is the name without its
\* trailing extension followed by ext with exactly one leading dot (nothing
\* when ext is empty), for every name and every ext.
C19_ChangeExtension_AsStated ==
    last.op = "ChangeExtension" => last.dir = Stem(last.a1) \o OneDot(last.a2)

\* C19, amended: ChangeExtension(name, ext) is the name without its trailing
\* extension followed by ext, with a dot put in front of it unless it is
\* empty or starts with a dot already.
C19_ChangeExtension ==
    last.op = "ChangeExtension" => last.dir = Stem(last.a1) \o Dotted(last.a2)

\* A name with an extension got another one, passed without dot.
C19_Witness ==
    /\ last.op = "ChangeExtension"
    /\ pathExt(last.a1) # <<>>
    /\ last.a2 # <<>>
    /\ ~HasPrefix(last.a2, <<".">>)
    /\ last.dir # last.a1
    /\ HasSuffix(last.dir, <<".">> \o last.a2)

----------------------------------------------------------------------------
\* The last two calls were ChangeExtension(n, e) and ChangeExtension of its
\* result with the same e.
AppliedTwice ==
    /\ prev.op = "ChangeExtension"
    /\ last.op = "ChangeExtension"
    /\ last.a1 = prev.dir
    /\ last.a2 = prev.a2

\* The extension is not empty and has no dot after its first character.
OneSegment(ext) == ext # <<>> /\ \A i \in 2..Len(ext) : ext[i] # "."

----------------------------------------------------------------------------
\* Two Moves of one entry, side by side.

BothReturned == moves # <<>> /\ \A c \in DOMAIN moves : moves[c].pc = "Returned"

\* The callers that succeeded.
Winners == {c \in DOMAIN moves : moves[c].err = NIL}

\* The entry that both callers move, as it was before either call.
RaceEntry == Subtree(Fixture, MoveFrom(moves[1]))

\* The entry, with all it held, is at p.
EntryAt(p) == Present(tree, p) /\ Subtree(tree, p) = RaceEntry

\* C21 as stated: when Move(a, b) and Move(a, c) of an existing entry a to
\* distinct absent destinations have both returned, whatever the interleaving
\* of their steps, exactly one of them succeeded, the other returned an
\* error, the entry is at exactly one of b and c and nothing is at a.
C21_ConcurrentMovesOneWins_AsStated ==
    BothReturned =>
        /\ Cardinality(Winners) = 1
        /\ EntryAt(MoveTo(moves[1])) # EntryAt(MoveTo(moves[2]))
        /\ ~Present(tree, MoveFrom(moves[1]))

\* Neither destination is inside the entry, and at least one of them is not
\* below a regular file.
RaceCanBeWon ==
    /\ \A c \in DOMAIN moves : ~IsPrefix(MoveFrom(moves[c]), MoveTo(moves[c]))
    /\ \E c \in DOMAIN moves : ~FileAbove(Fixture, MoveTo(moves[c]))

\* C21: when Move(a, b) and Move(a, c) of an existing entry a to distinct
\* absent destinations, neither of them inside a and not both below a
\* regular file, have both returned, whatever the interleaving of their
\* steps, exactly one of them succeeded, the other returned an error, the
\* entry with all it held is at the destination of the one that succeeded
\* and not at the other destination, and nothing is at a.
C21_ConcurrentMovesOneWins ==
    (BothReturned /\ RaceCanBeWon) =>
        /\ Cardinality(Winners) = 1
        /\ \A c \in DOMAIN moves : EntryAt(MoveTo(moves[c])) <=> (c \in Winners)
        /\ \A c \in DOMAIN moves : ~(c \in Winners) => moves[c].err # NIL
        /\ ~Present(tree, MoveFrom(moves[1]))

\* Both callers found the entry and prepared their destination before either
\* renamed it: one rename succeeded, the other found the entry gone.
C21_Witness ==
    /\ BothReturned
    /\ RaceCanBeWon
    /\ Cardinality(Winners) = 1
    /\ \E c \in DOMAIN moves : moves[c].at = "Rename" /\ moves[c].err = "ENOENT"
    /\ \E c \in Winners : EntryAt(MoveTo(moves[c])) /\ IsDir(tree, MoveTo(moves[c]))

====
